---- MODULE Spec2Model ----
(***************************************************************************)
(* Model of the two Wonderland Engine components of this repository:       *)
(*   FruitSpawner    (src/unnamed/part_000)                                *)
(*   BackgroundMusic (src/js/background-music.js)                          *)
(*                                                                         *)
(* Time is counted in tenths of a second (performance.now() / 100 ms).     *)
(* A component's fields are the fields of the records `spawner` and        *)
(* `music`; the browser, the engine and the XR runtime are the             *)
(* environment variables.  The two components share no field, so a scene   *)
(* is modelled with one of them attached to an object (`attached`).        *)
(*                                                                         *)
(* Four specifications:                                                    *)
(*   Spec       the events of a running scene, on either component         *)
(*   FairSpec   the spawner's events, the frame loop being weakly fair     *)
(*   StartSpec  FruitSpawner.start() resolving fruitPrefabs, step by step  *)
(*   SpawnSpec  one spawnFruit() call building its entity, by statement    *)
(***************************************************************************)
EXTENDS Integers, Sequences, FiniteSets, TLC

VARIABLES
    attached,      \* which component the scene holds: "spawner" or "music"
    spawner,       \* the fields of the FruitSpawner instance
    music,         \* the fields of the BackgroundMusic instance
    now,           \* wall clock, performance.now() in tenths of a second
    session,       \* the engine has an XR session
    inputSources,  \* the XR runtime's input sources (session.inputSources)
    keyHeld,       \* the Space key is physically down
    destroyed,     \* the engine has destroyed the component
    loadPc,        \* position of the asynchronous initAudio/loadAudioFile
    fires,         \* the spawnFruit calls of the last step, in order
    created,       \* entities the last step added to the scene
    toggles,       \* flips of the active flag the toggle code made in the last step
    lastFireAt,    \* clock reading of the most recent spawnFruit call, -1 if none
    lastFireKind,  \* the most recent spawnFruit call: "none", "first" (immediate,
                   \* first activation), "again" (immediate, a later activation),
                   \* "recurring"
    frameKeyEdges, \* Space presses delivered since the last update returned
    frameKeyToggles,
                   \* toggles those presses made
    sampled,       \* what the last update sampled on the controller: "none", "U", "P"
    hold,          \* the press being held: its source, the ticks it lasted, the
                   \* toggles it made, and whether the component was ready for it
    dropped,       \* a play request was ignored since audio was not ready
    startedSources,
                   \* buffer sources on which start() was called and stop()
                   \* was not
    lastCalls,     \* the last two playback calls the music component made:
                   \* "play" (playMusic started a node), "stop" (stopMusic
                   \* stopped a node), "stop0" (it had no node to stop),
                   \* "close" (audioContext.close())
    startup,       \* FruitSpawner.start() resolving its prefabs: the scene, the
                   \* parsed names, and the locals of lines 52-93
    spawning       \* one spawnFruit() call building its entity: the prefab, the
                   \* statements it runs, and the entities it has built so far

vars == <<attached, spawner, music, now, session, inputSources, keyHeld,
          destroyed, loadPc, fires, created, toggles, lastFireAt,
          lastFireKind, frameKeyEdges, frameKeyToggles, sampled, hold,
          dropped, startedSources, lastCalls, startup, spawning>>

-----------------------------------------------------------------------------
(* Bounds of the model                                                     *)

\* the clock stops at MaxTime tenths of a second
MaxTime == 20
\* a held press is followed for at most MaxHoldTicks update ticks
MaxHoldTicks == 2
\* at most MaxFrameKeys Space presses are delivered between two updates
MaxFrameKeys == 1

\* frame times (dt) the engine hands to update, in tenths of a second
Dts == {5, 10}
\* configured spawnInterval values: 0.1 s and 1.0 s
SpawnIntervals == {1, 10}
\* key codes the browser delivers
Codes == {"Space", "KeyA"}

Null == "null"

-----------------------------------------------------------------------------
(* Input sources                                                           *)

\* gamepad.buttons of a Meta Quest 2 controller: index 0 trigger, 1 squeeze
Released == <<FALSE, FALSE>>

\* an XRInputSource: handedness, gamepad (absent or present), gamepad.buttons
Source(h, g, b) == [handedness |-> h, hasGamepad |-> g, buttons |-> b]

\* the value line 156-160 computes for one gamepad (JS index i is i + 1 here)
ButtonValue(activationButton, buttons) ==
    IF activationButton = "trigger" /\ Len(buttons) >= 1 THEN buttons[1]
    ELSE IF activationButton = "squeeze" /\ Len(buttons) >= 2 THEN buttons[2]
    ELSE FALSE

-----------------------------------------------------------------------------
(* FruitSpawner.  A handler is an operator on m = [self, fires, created,   *)
(* toggles]: the instance and what the handler did to the scene.           *)

\* the fields after start(), for the configured properties
SpawnerStart(interval, fruit) ==
    [ isSpawning         |-> FALSE,
      timeSinceLastSpawn |-> 0,
      buttonPressed      |-> FALSE,
      spacePressed       |-> FALSE,
      lastSpawnTime      |-> 0,
      minSpawnInterval   |-> 10,
      fruitObjects       |-> fruit,
      xrSession          |-> Null,
      spawnInterval      |-> interval,
      activationButton   |-> "trigger",
      handedness         |-> "right" ]

Run(self) == [self |-> self, fires |-> <<>>, created |-> 0, toggles |-> 0]

\* spawnFruit() without the guard of lines 179-182: line 190 adds the
\* entity before the missing prefab makes cloneObject throw into the catch
spawnFruit_NoGuard(m, site) ==
    [m EXCEPT !.fires = Append(@, site), !.created = @ + 1]

\* spawnFruit(): a no-op with a warning when nothing was resolved, else one
\* new entity; `site` is the call site, "immediate" or "recurring"
spawnFruit(m, site) ==
    IF Len(m.self.fruitObjects) = 0
    THEN [m EXCEPT !.fires = Append(@, site)]
    ELSE [m EXCEPT !.fires = Append(@, site), !.created = @ + 1]

\* lines 163-172 and 37-42: flip isSpawning, spawn at once when it became true
SpawnerToggle(m) ==
    LET m1 == [m EXCEPT !.self.isSpawning = ~@, !.toggles = @ + 1]
    IN  IF m1.self.isSpawning
        THEN [spawnFruit(m1, "immediate") EXCEPT !.self.timeSinceLastSpawn = 0]
        ELSE m1

\* the keydown listener
SpawnerKeyDown(m, code) ==
    IF code = "Space" /\ ~m.self.spacePressed
    THEN SpawnerToggle([m EXCEPT !.self.spacePressed = TRUE])
    ELSE m

\* SpawnerKeyUp toggling on release as well
SpawnerKeyUp_Toggles(m, code) ==
    IF code = "Space"
    THEN SpawnerToggle([m EXCEPT !.self.spacePressed = FALSE])
    ELSE m

\* the keyup listener
SpawnerKeyUp(m, code) ==
    IF code = "Space" THEN [m EXCEPT !.self.spacePressed = FALSE] ELSE m

\* SpawnerCheckSource with line 174 forgotten: the sampled state is not kept
SpawnerCheckSource_NoRecord(m, src) ==
    IF src.handedness # m.self.handedness THEN m
    ELSE IF ~src.hasGamepad THEN m
    ELSE LET buttonPressed == ButtonValue(m.self.activationButton, src.buttons)
         IN  IF buttonPressed /\ ~m.self.buttonPressed
             THEN SpawnerToggle(m) ELSE m

\* one iteration of the loop of checkButtonPress
SpawnerCheckSource(m, src) ==
    IF src.handedness # m.self.handedness THEN m
    ELSE IF ~src.hasGamepad THEN m
    ELSE LET buttonPressed == ButtonValue(m.self.activationButton, src.buttons)
             m1 == IF buttonPressed /\ ~m.self.buttonPressed
                   THEN SpawnerToggle(m) ELSE m
         IN  [m1 EXCEPT !.self.buttonPressed = buttonPressed]

RECURSIVE SpawnerCheckFrom(_, _, _)
SpawnerCheckFrom(m, srcs, i) ==
    IF i > Len(srcs) THEN m
    ELSE SpawnerCheckFrom(SpawnerCheckSource(m, srcs[i]), srcs, i + 1)

SpawnerCheckButtonPress(m, srcs) ==
    IF m.self.xrSession = Null THEN m ELSE SpawnerCheckFrom(m, srcs, 1)

\* the recurring spawn taking the time of every tick that does not fire as
\* lastSpawnTime
SpawnerRecur_TickResets(m, dt, currentTime) ==
    IF m.self.isSpawning
    THEN LET m1 == [m EXCEPT !.self.timeSinceLastSpawn = @ + dt]
         IN  IF currentTime - m1.self.lastSpawnTime >= m1.self.spawnInterval
             THEN [spawnFruit(m1, "recurring") EXCEPT
                       !.self.lastSpawnTime = currentTime,
                       !.self.timeSinceLastSpawn = 0]
             ELSE [m1 EXCEPT !.self.lastSpawnTime = currentTime]
    ELSE m

\* the recurring spawn without the test of isSpawning of line 124
SpawnerRecur_Always(m, dt, currentTime) ==
    LET m1 == [m EXCEPT !.self.timeSinceLastSpawn = @ + dt]
    IN  IF currentTime - m1.self.lastSpawnTime >= m1.self.spawnInterval
        THEN [spawnFruit(m1, "recurring") EXCEPT
                  !.self.lastSpawnTime = currentTime,
                  !.self.timeSinceLastSpawn = 0]
        ELSE m1

\* lines 124-135: the recurring spawn
SpawnerRecur(m, dt, currentTime) ==
    IF m.self.isSpawning
    THEN LET m1 == [m EXCEPT !.self.timeSinceLastSpawn = @ + dt]
         IN  IF currentTime - m1.self.lastSpawnTime >= m1.self.spawnInterval
             THEN [spawnFruit(m1, "recurring") EXCEPT
                       !.self.lastSpawnTime = currentTime,
                       !.self.timeSinceLastSpawn = 0]
             ELSE m1
    ELSE m

\* update(dt)
SpawnerUpdate(m, dt, currentTime, srcs) ==
    LET m1 == IF m.self.xrSession # Null
              THEN SpawnerCheckButtonPress(m, srcs) ELSE m
    IN  SpawnerRecur(m1, dt, currentTime)

SpawnerOnXRSessionStart(m) == [m EXCEPT !.self.xrSession = "session"]

SpawnerOnXRSessionEnd(m) ==
    [m EXCEPT !.self.xrSession = Null, !.self.isSpawning = FALSE]

SpawnerOnDestroy(m) == [m EXCEPT !.self.isSpawning = FALSE]

-----------------------------------------------------------------------------
(* BackgroundMusic.  A handler is an operator on m = [self, toggles,       *)
(* warned]: the instance, the flips of isPlaying that toggleMusic made and *)
(* whether 'Audio not ready yet' was logged.                               *)
(* sourceNode is null or the state of the AudioBufferSourceNode it refers  *)
(* to: "playing", "ended" (a non-looping source that reached its end) or   *)
(* "muted" (started on a closed context, which renders nothing).           *)

\* the fields after start() has called initAudio() up to its first await:
\* ctx is the new AudioContext's state, or null when its constructor threw
MusicStart(ctx, loop) ==
    [ isPlaying        |-> FALSE,
      buttonPressed    |-> FALSE,
      spacePressed     |-> FALSE,
      audioContext     |-> ctx,
      audioBuffer      |-> Null,
      sourceNode       |-> Null,
      gainNode         |-> IF ctx = Null THEN Null ELSE "gain",
      xrSession        |-> Null,
      loop             |-> loop,
      activationButton |-> "trigger",
      handedness       |-> "right" ]

\* sourceNode holds a node; every node it holds was started (line 125)
Started(node) == node # Null

MRun(self) == [self |-> self, toggles |-> 0, warned |-> FALSE,
               started |-> startedSources, calls |-> <<>>, threw |-> FALSE]

\* playMusic with the audioBuffer half of the guard of line 103 missing
playMusic_NoBufferCheck(m) ==
    IF m.self.audioContext = Null
    THEN [m EXCEPT !.warned = TRUE]
    ELSE LET ctx == IF m.self.audioContext = "suspended"
                    THEN "running" ELSE m.self.audioContext
             stopped == IF Started(m.self.sourceNode) THEN 1 ELSE 0
         IN  [m EXCEPT !.self.audioContext = ctx,
                       !.self.sourceNode =
                           IF ctx = "closed" THEN "muted" ELSE "playing",
                       !.self.isPlaying = TRUE,
                       !.started = @ - stopped + 1,
                       !.calls = Append(@, "play")]

\* playMusic()
playMusic(m) ==
    IF m.self.audioContext = Null \/ m.self.audioBuffer = Null
    THEN [m EXCEPT !.warned = TRUE]
    ELSE LET ctx == IF m.self.audioContext = "suspended"
                    THEN "running" ELSE m.self.audioContext
             stopped == IF Started(m.self.sourceNode) THEN 1 ELSE 0
         IN  [m EXCEPT !.self.audioContext = ctx,
                       !.self.sourceNode =
                           IF ctx = "closed" THEN "muted" ELSE "playing",
                       !.self.isPlaying = TRUE,
                       !.started = @ - stopped + 1,
                       !.calls = Append(@, "play")]

\* stopMusic() without the guard and the try of lines 132-137: stop() is
\* called on whatever sourceNode holds
stopMusic_Unguarded(m) ==
    IF m.self.sourceNode = Null
    THEN [m EXCEPT !.threw = TRUE]
    ELSE [m EXCEPT !.self.sourceNode = Null, !.self.isPlaying = FALSE,
                   !.started = IF Started(m.self.sourceNode) THEN @ - 1 ELSE @,
                   !.calls = Append(@, "stop")]

\* stopMusic() that drops its reference without calling stop() on the node
stopMusic_NoStop(m) ==
    [m EXCEPT !.self.sourceNode = Null, !.self.isPlaying = FALSE,
              !.calls = Append(@, IF m.self.sourceNode = Null
                                  THEN "stop0" ELSE "stop")]

\* stopMusic(): a held node is stopped (inside try/catch) and the reference
\* dropped; isPlaying is cleared in every case
stopMusic(m) ==
    [m EXCEPT !.self.sourceNode = Null, !.self.isPlaying = FALSE,
              !.started = IF Started(m.self.sourceNode) THEN @ - 1 ELSE @,
              !.calls = Append(@, IF m.self.sourceNode = Null
                                  THEN "stop0" ELSE "stop")]

\* toggleMusic()
toggleMusic(m) ==
    LET r == IF m.self.isPlaying THEN stopMusic(m) ELSE playMusic(m)
    IN  [r EXCEPT !.toggles =
             IF r.self.isPlaying # m.self.isPlaying THEN @ + 1 ELSE @]

\* the keydown listener
MusicKeyDown(m, code) ==
    IF code = "Space" /\ ~m.self.spacePressed
    THEN toggleMusic([m EXCEPT !.self.spacePressed = TRUE])
    ELSE m

\* the keyup listener
MusicKeyUp(m, code) ==
    IF code = "Space" THEN [m EXCEPT !.self.spacePressed = FALSE] ELSE m

\* one iteration of the loop of checkButtonPress
MusicCheckSource(m, src) ==
    IF src.handedness # m.self.handedness THEN m
    ELSE IF ~src.hasGamepad THEN m
    ELSE LET buttonPressed == ButtonValue(m.self.activationButton, src.buttons)
             m1 == IF buttonPressed /\ ~m.self.buttonPressed
                   THEN toggleMusic(m) ELSE m
         IN  [m1 EXCEPT !.self.buttonPressed = buttonPressed]

RECURSIVE MusicCheckFrom(_, _, _)
MusicCheckFrom(m, srcs, i) ==
    IF i > Len(srcs) THEN m
    ELSE MusicCheckFrom(MusicCheckSource(m, srcs[i]), srcs, i + 1)

MusicCheckButtonPress(m, srcs) ==
    IF m.self.xrSession = Null THEN m ELSE MusicCheckFrom(m, srcs, 1)

\* update(dt)
MusicUpdate(m, srcs) ==
    IF m.self.xrSession # Null THEN MusicCheckButtonPress(m, srcs) ELSE m

MusicOnXRSessionStart(m) == [m EXCEPT !.self.xrSession = "session"]

MusicOnXRSessionEnd(m) == stopMusic([m EXCEPT !.self.xrSession = Null])

\* onDestroy() without its stopMusic() call
MusicOnDestroy_NoStop(m) ==
    IF m.self.audioContext # Null
    THEN [m EXCEPT !.self.audioContext = "closed", !.calls = Append(@, "close")]
    ELSE m

\* onDestroy(): stopMusic(), then audioContext.close()
MusicOnDestroy(m) ==
    LET m1 == stopMusic(m)
    IN  IF m1.self.audioContext # Null
        THEN [m1 EXCEPT !.self.audioContext = "closed",
                        !.calls = Append(@, "close")]
        ELSE m1

\* loadAudioFile(): the awaited decodeAudioData resolved
MusicLoaded(m) == [m EXCEPT !.self.audioBuffer = "buffer"]

-----------------------------------------------------------------------------
(* The environment: browser, engine and XR runtime                         *)

Min(a, b) == IF a < b THEN a ELSE b

\* the attached component's configuration
Cfg == IF attached = "spawner" THEN spawner ELSE music

\* states of gamepad.buttons: at most one of the two buttons is down
ButtonStates == {Released, <<TRUE, FALSE>>, <<FALSE, TRUE>>}

\* index in gamepad.buttons of the configured button
ConfiguredIndex(button) == IF button = "trigger" THEN 1 ELSE 2

\* the input sources of the configured hand that expose a gamepad
Matching(srcs) ==
    {i \in 1..Len(srcs) : srcs[i].handedness = Cfg.handedness /\ srcs[i].hasGamepad}

\* the configured button is physically down
PhysPressed(srcs) ==
    \E i \in Matching(srcs) : srcs[i].buttons[ConfiguredIndex(Cfg.activationButton)]

\* what an update tick can read of the configured button: "P", "U", or
\* "none" when there is no session, no such input source or no gamepad
Sample(sess, dead, srcs) ==
    IF ~sess \/ dead \/ Matching(srcs) = {} THEN "none"
    ELSE IF PhysPressed(srcs) THEN "P" ELSE "U"

RemoveAt(seq, i) == [j \in 1..(Len(seq) - 1) |-> IF j < i THEN seq[j] ELSE seq[j + 1]]

\* the component can act on a toggle: always for the spawner, once the
\* audio context exists and the buffer is decoded for the music
Ready == attached = "spawner" \/ (music.audioContext # Null /\ music.audioBuffer # Null)

\* no press is held / a press is held that is not one clean press of one source
NoHold == [src |-> "none", ticks |-> 0, toggles |-> 0, ready |-> FALSE]
VoidHold == [src |-> "void", ticks |-> 0, toggles |-> 0, ready |-> FALSE]

\* a press that ended leaves no hold behind
Settle(h, keyAfter, srcsAfter) ==
    IF h.src = "void" /\ ~keyAfter /\ ~PhysPressed(srcsAfter) THEN NoHold ELSE h

\* the held press after an update tick that sampled s and made t toggles
HoldAfterTick(h, s, t) ==
    IF s = "P"
    THEN IF h.src = "ctl"
         THEN [h EXCEPT !.ticks = Min(@ + 1, MaxHoldTicks), !.toggles = @ + t]
         ELSE IF h.src = "none" /\ sampled = "U" /\ ~keyHeld
              THEN [src |-> "ctl", ticks |-> 1, toggles |-> t, ready |-> Ready]
              ELSE VoidHold
    ELSE IF h.src = "ctl" THEN (IF s = "U" THEN NoHold ELSE VoidHold)
    ELSE IF h.src = "key"
         THEN [h EXCEPT !.ticks = Min(@ + 1, MaxHoldTicks), !.toggles = @ + t]
         ELSE h

\* the held press after a Space keydown that made t toggles
HoldAfterKeyDown(h, t) ==
    IF ~keyHeld
    THEN IF h.src = "none" /\ ~PhysPressed(inputSources) /\ sampled # "P"
         THEN [src |-> "key", ticks |-> 0, toggles |-> t, ready |-> Ready]
         ELSE VoidHold
    ELSE IF h.src = "key" THEN [h EXCEPT !.toggles = @ + t] ELSE h

\* the held press after the controllers changed
HoldAfterSources(h, srcsAfter) ==
    IF h.src = "key" /\ PhysPressed(srcsAfter) THEN VoidHold ELSE h

\* the most recent spawnFruit call after a step that made the calls fs
FireKindAfter(fs) ==
    IF fs = <<>> THEN lastFireKind
    ELSE IF fs[Len(fs)] = "recurring" THEN "recurring"
    ELSE IF lastFireKind = "none" /\ Len(fs) = 1 THEN "first" ELSE "again"

\* what a step of the spawner, at clock reading t, leaves in the step and
\* history variables
SpawnerDid(r, t) ==
    /\ spawner' = r.self
    /\ fires' = r.fires
    /\ created' = r.created
    /\ toggles' = r.toggles
    /\ lastFireAt' = IF r.fires = <<>> THEN lastFireAt ELSE t
    /\ lastFireKind' = FireKindAfter(r.fires)
    /\ UNCHANGED <<music, dropped, startedSources, lastCalls, startup, spawning>>

\* the last two of the calls cs
LastTwo(cs) == IF Len(cs) <= 2 THEN cs ELSE SubSeq(cs, Len(cs) - 1, Len(cs))

\* what a step of the music component leaves in them
MusicDid(r) ==
    /\ music' = r.self
    /\ startedSources' = r.started
    /\ lastCalls' = LastTwo(lastCalls \o r.calls)
    /\ toggles' = r.toggles
    /\ dropped' = (dropped \/ r.warned)
    /\ fires' = <<>>
    /\ created' = 0
    /\ UNCHANGED <<spawner, lastFireAt, lastFireKind, startup, spawning>>

\* a step in which no handler of the component ran
NothingDone ==
    /\ fires' = <<>>
    /\ created' = 0
    /\ toggles' = 0
    /\ UNCHANGED <<spawner, music, lastFireAt, lastFireKind, dropped,
                   startedSources, lastCalls, startup, spawning>>

-----------------------------------------------------------------------------
(* Initial state: the component's start() has returned                     *)

\* start() is not running / no spawnFruit() call is running
NotStarting == [pc |-> "returned"]
NotSpawning == [pc |-> "idle"]

\* the components and their environment when start() has returned
ComponentInit ==
    /\ attached \in {"spawner", "music"}
    /\ spawner \in IF attached = "spawner"
                   THEN {SpawnerStart(i, f) : i \in SpawnIntervals,
                                               f \in {<<>>, <<"apple">>}}
                   ELSE {SpawnerStart(30, <<>>)}
    /\ music \in IF attached = "music"
                 THEN {MusicStart(c, l) : c \in {Null, "suspended", "running"},
                                          l \in BOOLEAN}
                 ELSE {MusicStart(Null, TRUE)}
    /\ loadPc = IF attached = "music" /\ music.audioContext # Null
                THEN "fetching" ELSE "failed"
    /\ now = 0
    /\ session = FALSE
    /\ inputSources = <<>>
    /\ keyHeld = FALSE
    /\ destroyed = FALSE
    /\ fires = <<>>
    /\ created = 0
    /\ toggles = 0
    /\ lastFireAt = -1
    /\ lastFireKind = "none"
    /\ frameKeyEdges = 0
    /\ frameKeyToggles = 0
    /\ sampled = "none"
    /\ hold = NoHold
    /\ dropped = FALSE
    /\ startedSources = 0
    /\ lastCalls = <<>>

Init == ComponentInit /\ startup = NotStarting /\ spawning = NotSpawning

-----------------------------------------------------------------------------
(* Actions                                                                 *)

\* the engine renders a frame dt after the previous one and calls update(dt)
\* on the component, unless it was destroyed
Update(dt) ==
    /\ now + dt <= MaxTime
    /\ now' = now + dt
    /\ IF destroyed THEN NothingDone
       ELSE IF attached = "spawner"
            THEN SpawnerDid(SpawnerUpdate(Run(spawner), dt, now + dt, inputSources),
                            now + dt)
            ELSE MusicDid(MusicUpdate(MRun(music), inputSources))
    /\ sampled' = Sample(session, destroyed, inputSources)
    /\ hold' = Settle(HoldAfterTick(hold, sampled', toggles'), keyHeld, inputSources)
    /\ frameKeyEdges' = 0
    /\ frameKeyToggles' = 0
    /\ UNCHANGED <<attached, session, inputSources, keyHeld, destroyed, loadPc>>

\* the browser delivers a keydown: a fresh press, or the auto-repeat of a
\* key that is held; the window listeners outlive the component
KeyDown(code) ==
    /\ (code = "Space" /\ ~keyHeld) => frameKeyEdges < MaxFrameKeys
    /\ IF attached = "spawner"
       THEN SpawnerDid(SpawnerKeyDown(Run(spawner), code), now)
       ELSE MusicDid(MusicKeyDown(MRun(music), code))
    /\ keyHeld' = (keyHeld \/ code = "Space")
    /\ frameKeyEdges' = IF code = "Space" /\ ~keyHeld
                        THEN frameKeyEdges + 1 ELSE frameKeyEdges
    /\ frameKeyToggles' = frameKeyToggles + toggles'
    /\ hold' = IF code = "Space" THEN HoldAfterKeyDown(hold, toggles') ELSE hold
    /\ UNCHANGED <<attached, now, session, inputSources, destroyed, loadPc, sampled>>

\* the browser delivers a keyup
KeyUp(code) ==
    /\ code = "Space" => keyHeld
    /\ IF attached = "spawner"
       THEN SpawnerDid(SpawnerKeyUp(Run(spawner), code), now)
       ELSE MusicDid(MusicKeyUp(MRun(music), code))
    /\ keyHeld' = (keyHeld /\ code # "Space")
    /\ hold' = IF code = "Space"
               THEN Settle(IF hold.src = "key" THEN NoHold ELSE hold,
                           FALSE, inputSources)
               ELSE hold
    /\ UNCHANGED <<attached, now, session, inputSources, destroyed, loadPc,
                   sampled, frameKeyEdges, frameKeyToggles>>

\* engine.onXRSessionStart
XRSessionStart ==
    /\ ~session
    /\ session' = TRUE
    /\ IF attached = "spawner"
       THEN SpawnerDid(SpawnerOnXRSessionStart(Run(spawner)), now)
       ELSE MusicDid(MusicOnXRSessionStart(MRun(music)))
    /\ UNCHANGED <<attached, now, inputSources, keyHeld, destroyed, loadPc,
                   sampled, hold, frameKeyEdges, frameKeyToggles>>

\* engine.onXRSessionEnd
XRSessionEnd ==
    /\ session
    /\ session' = FALSE
    /\ IF attached = "spawner"
       THEN SpawnerDid(SpawnerOnXRSessionEnd(Run(spawner)), now)
       ELSE MusicDid(MusicOnXRSessionEnd(MRun(music)))
    /\ UNCHANGED <<attached, now, inputSources, keyHeld, destroyed, loadPc,
                   sampled, hold, frameKeyEdges, frameKeyToggles>>

\* the engine destroys the component and calls onDestroy()
Destroy ==
    /\ ~destroyed
    /\ destroyed' = TRUE
    /\ IF attached = "spawner"
       THEN SpawnerDid(SpawnerOnDestroy(Run(spawner)), now)
       ELSE MusicDid(MusicOnDestroy(MRun(music)))
    /\ UNCHANGED <<attached, now, session, inputSources, keyHeld, loadPc,
                   sampled, hold, frameKeyEdges, frameKeyToggles>>

\* the controllers change; no handler of the component runs
SourcesBecome(srcs) ==
    /\ inputSources' = srcs
    /\ hold' = Settle(HoldAfterSources(hold, srcs), keyHeld, srcs)
    /\ NothingDone
    /\ UNCHANGED <<attached, now, session, keyHeld, destroyed, loadPc,
                   sampled, frameKeyEdges, frameKeyToggles>>

\* a controller is switched on; it may come without a gamepad object; the
\* runtime lists the left controller before the right one
ConnectSource(h, g) ==
    /\ \A i \in 1..Len(inputSources) : inputSources[i].handedness # h
    /\ h = "left" => g
    /\ SourcesBecome(IF h = "left"
                     THEN <<Source(h, g, Released)>> \o inputSources
                     ELSE Append(inputSources, Source(h, g, Released)))

\* a controller is switched off
DisconnectSource(i) ==
    /\ i \in 1..Len(inputSources)
    /\ SourcesBecome(RemoveAt(inputSources, i))

\* the gamepad object of the configured hand's source goes away
GamepadLost(i) ==
    /\ i \in 1..Len(inputSources)
    /\ inputSources[i].handedness = Cfg.handedness
    /\ inputSources[i].hasGamepad
    /\ SourcesBecome([inputSources EXCEPT ![i] = Source(@.handedness, FALSE, Released)])

\* it comes back, with its buttons in state b
GamepadBack(i, b) ==
    /\ i \in 1..Len(inputSources)
    /\ ~inputSources[i].hasGamepad
    /\ SourcesBecome([inputSources EXCEPT ![i] = Source(@.handedness, TRUE, b)])

\* the user presses button k of the configured hand's controller
PressButton(i, k) ==
    /\ i \in 1..Len(inputSources)
    /\ inputSources[i].handedness = Cfg.handedness
    /\ inputSources[i].hasGamepad
    /\ inputSources[i].buttons = Released
    /\ SourcesBecome([inputSources EXCEPT ![i].buttons[k] = TRUE])

\* the user releases it
ReleaseButton(i, k) ==
    /\ i \in 1..Len(inputSources)
    /\ inputSources[i].hasGamepad
    /\ inputSources[i].buttons[k]
    /\ SourcesBecome([inputSources EXCEPT ![i].buttons[k] = FALSE])

\* the music component's asynchronous work and the audio hardware
MusicAsync(r, pc) ==
    /\ attached = "music"
    /\ MusicDid(r)
    /\ loadPc' = pc
    /\ UNCHANGED <<attached, now, session, inputSources, keyHeld, destroyed,
                   sampled, hold, frameKeyEdges, frameKeyToggles>>

\* fetch and decodeAudioData resolved
LoadDone ==
    /\ loadPc = "fetching"
    /\ MusicAsync(MusicLoaded(MRun(music)), "done")

\* fetch, response.ok or decodeAudioData failed: caught and logged
LoadFail ==
    /\ loadPc = "fetching"
    /\ MusicAsync(MRun(music), "failed")

\* a source that does not loop reaches the end of its buffer
SourceEnded ==
    /\ music.sourceNode = "playing"
    /\ ~music.loop
    /\ MusicAsync(MRun([music EXCEPT !.sourceNode = "ended"]), loadPc)

Next ==
    \/ \E dt \in Dts : Update(dt)
    \/ \E code \in Codes : KeyDown(code)
    \/ \E code \in Codes : KeyUp(code)
    \/ XRSessionStart
    \/ XRSessionEnd
    \/ Destroy
    \/ \E h \in {"left", "right"}, g \in BOOLEAN : ConnectSource(h, g)
    \/ \E i \in 1..2 : DisconnectSource(i)
    \/ \E i \in 1..2 : GamepadLost(i)
    \/ \E i \in 1..2, b \in ButtonStates : GamepadBack(i, b)
    \/ \E i \in 1..2, k \in 1..2 : PressButton(i, k)
    \/ \E i \in 1..2, k \in 1..2 : ReleaseButton(i, k)
    \/ LoadDone
    \/ LoadFail
    \/ SourceEnded

Spec == Init /\ [][Next]_vars

-----------------------------------------------------------------------------
(* FruitSpawner.start(), lines 51-98: prefab resolution.                   *)
(* A name is a sequence of characters.  A scene graph is a sequence of     *)
(* nodes; node 1 is engine.scene, which has children and no name; the      *)
(* other nodes are objects [name, children], children being node numbers.  *)

\* the call stack of the JavaScript engine holds MaxStack processObject frames
MaxStack == 4
\* fruitPrefabs lists at most MaxNames names
MaxNames == 2

SceneRoot == 1

\* obj.name of the scene (undefined) and of an object (a string, maybe '')
NoName == [defined |-> FALSE, chars |-> <<>>]
Named(s) == [defined |-> TRUE, chars |-> s]

\* object names of the scenes: '', 'a', 'a_b', 'b'
NodeNames == {<<>>, <<"a">>, <<"a", "_", "b">>, <<"b">>}
\* names fruitPrefabs.split(',').map(trim) yields: '', 'a', 'ab', 'b'
RequestNames == {<<>>, <<"a">>, <<"a", "b">>, <<"b">>}

\* the parsed lists of names: split yields at least one name
RequestLists == UNION {[1..n -> RequestNames] : n \in 1..MaxNames}

\* children of the nodes of the scenes: five trees, and two graphs in which
\* node 2 is among its own descendants (as its own child, and through 3)
TreeShapes ==
    { << <<>> >>,
      << <<2>>, <<>> >>,
      << <<3, 2>>, <<>>, <<>> >>,
      << <<2>>, <<3>>, <<>> >>,
      << <<3, 2>>, <<>>, <<4>>, <<>> >> }
CyclicShapes ==
    { << <<2>>, <<2>> >>,
      << <<2>>, <<3>>, <<2>> >> }

\* the scenes of a set of shapes, with every naming of their objects
ScenesOf(shapes) ==
    UNION { { [n \in 1..Len(sh) |->
                 [name |-> IF n = SceneRoot THEN NoName ELSE Named(nm[n]),
                  children |-> sh[n]]] :
              nm \in [1..Len(sh) -> NodeNames] } : sh \in shapes }

Scenes == ScenesOf(TreeShapes \cup CyclicShapes)

\* String.prototype.includes
Includes(s, sub) ==
    \E i \in 0..(Len(s) - Len(sub)) : SubSeq(s, i + 1, i + Len(sub)) = sub

\* s.split('_')[0]: the characters before the first underscore
BeforeUnderscore(s) ==
    IF \E i \in 1..Len(s) : s[i] = "_"
    THEN SubSeq(s, 1, (CHOOSE i \in 1..Len(s) :
                          s[i] = "_" /\ \A j \in 1..(i - 1) : s[j] # "_") - 1)
    ELSE s

\* obj.name === name (line 77)
ExactMatch(obj, name) == obj.name.defined /\ obj.name.chars = name

\* the test of lines 82-83
PartialMatch(obj, name) ==
    /\ obj.name.defined /\ Len(obj.name.chars) > 0
    /\ \/ Includes(obj.name.chars, name)
       \/ Includes(name, BeforeUnderscore(obj.name.chars))

\* Array.prototype.find over allObjects, by node number; 0 is undefined
FindExact(scene, allObjects, name) ==
    IF \E i \in 1..Len(allObjects) : ExactMatch(scene[allObjects[i]], name)
    THEN allObjects[CHOOSE i \in 1..Len(allObjects) :
            /\ ExactMatch(scene[allObjects[i]], name)
            /\ \A j \in 1..(i - 1) : ~ExactMatch(scene[allObjects[j]], name)]
    ELSE 0

FindPartial(scene, allObjects, name) ==
    IF \E i \in 1..Len(allObjects) : PartialMatch(scene[allObjects[i]], name)
    THEN allObjects[CHOOSE i \in 1..Len(allObjects) :
            /\ PartialMatch(scene[allObjects[i]], name)
            /\ \A j \in 1..(i - 1) : ~PartialMatch(scene[allObjects[j]], name)]
    ELSE 0

\* lines 77-85 with the exact match of line 77 left out
Find_PartialOnly(scene, allObjects, name) == FindPartial(scene, allObjects, name)

\* lines 77-85: `found` for one name
Find(scene, allObjects, name) ==
    LET found == FindExact(scene, allObjects, name)
    IN  IF found = 0 THEN FindPartial(scene, allObjects, name) ELSE found

\* start() has parsed fruitPrefabs and is about to call processObject
Starting(scene, names) ==
    [ pc           |-> "parsed",
      scene        |-> scene,
      names        |-> names,
      allObjects   |-> <<>>,
      stack        |-> <<>>,
      next         |-> 1,
      fruitObjects |-> <<>>,
      warnings     |-> 0 ]

\* the components are as start() leaves them; only start() is followed
StartInit ==
    /\ ComponentInit
    /\ attached = "spawner"
    /\ spawner = SpawnerStart(10, <<>>)
    /\ spawning = NotSpawning
    /\ startup \in {Starting(scene, names) : scene \in Scenes,
                                             names \in RequestLists}

componentVars ==
    <<attached, spawner, music, now, session, inputSources, keyHeld,
      destroyed, loadPc, fires, created, toggles, lastFireAt, lastFireKind,
      frameKeyEdges, frameKeyToggles, sampled, hold, dropped, startedSources,
      lastCalls>>

\* a processObject frame: its obj and the i of its loop, counted from 1
Frame(obj) == [obj |-> obj, i |-> 1]

\* line 66: processObject(this.engine.scene), which pushes it (line 61)
ProcessScene ==
    /\ startup.pc = "parsed"
    /\ startup' = [startup EXCEPT !.pc = "flatten",
                                  !.allObjects = <<SceneRoot>>,
                                  !.stack = <<Frame(SceneRoot)>>]
    /\ UNCHANGED <<componentVars, spawning>>

\* the frame on top of the stack and the children of its obj
Top == startup.stack[Len(startup.stack)]
TopChildren == startup.scene[Top.obj].children

\* lines 62-64: the loop calls processObject(obj.children[i]), which pushes
\* the child (line 61)
ProcessChild ==
    /\ startup.pc = "flatten"
    /\ Top.i <= Len(TopChildren)
    /\ Len(startup.stack) < MaxStack
    /\ startup' = [startup EXCEPT
           !.allObjects = Append(@, TopChildren[Top.i]),
           !.stack = Append([@ EXCEPT ![Len(@)].i = @ + 1],
                            Frame(TopChildren[Top.i]))]
    /\ UNCHANGED <<componentVars, spawning>>

\* the same call with the call stack full: RangeError, which nothing in
\* start() catches
StackOverflow ==
    /\ startup.pc = "flatten"
    /\ Top.i <= Len(TopChildren)
    /\ Len(startup.stack) = MaxStack
    /\ startup' = [startup EXCEPT !.pc = "overflow"]
    /\ UNCHANGED <<componentVars, spawning>>

\* the loop of a frame is over: processObject returns
ProcessReturn ==
    /\ startup.pc = "flatten"
    /\ Top.i > Len(TopChildren)
    /\ startup' = [startup EXCEPT
           !.stack = SubSeq(@, 1, Len(@) - 1),
           !.pc = IF Len(startup.stack) = 1 THEN "resolve" ELSE "flatten"]
    /\ UNCHANGED <<componentVars, spawning>>

\* lines 75-93: one iteration of the loop over names
ResolveName ==
    /\ startup.pc = "resolve"
    /\ startup.next <= Len(startup.names)
    /\ LET found == Find(startup.scene, startup.allObjects,
                         startup.names[startup.next])
       IN  startup' = [startup EXCEPT
               !.next = @ + 1,
               !.fruitObjects = IF found # 0 THEN Append(@, found) ELSE @,
               !.warnings = IF found # 0 THEN @ ELSE @ + 1]
    /\ UNCHANGED <<componentVars, spawning>>

\* the loop over names is over
ResolveDone ==
    /\ startup.pc = "resolve"
    /\ startup.next > Len(startup.names)
    /\ startup' = [startup EXCEPT !.pc = "done"]
    /\ UNCHANGED <<componentVars, spawning>>

StartNext ==
    \/ ProcessScene
    \/ ProcessChild
    \/ StackOverflow
    \/ ProcessReturn
    \/ ResolveName
    \/ ResolveDone

StartSpec == StartInit /\ [][StartNext]_vars

-----------------------------------------------------------------------------
(* FruitSpawner.spawnFruit() and cloneObject(), lines 184-272: the         *)
(* statements one spawn runs on the entities it builds.  A prefab is a     *)
(* sequence of source objects [components, children]; object 1 is the      *)
(* prefab picked from fruitObjects, entity 1 the new `fruit`.              *)

Fruit == 1

\* component types cloneObject copies
ComponentTypes == {"mesh", "physx", "collision"}

\* children of the objects of a prefab
PrefabShapes ==
    { << <<>> >>,
      << <<2>>, <<>> >>,
      << <<2, 3>>, <<>>, <<>> >>,
      << <<2>>, <<3>>, <<>> >> }

Prefabs ==
    UNION { { [n \in 1..Len(sh) |-> [components |-> cs[n], children |-> sh[n]]] :
              cs \in [1..Len(sh) -> SUBSET ComponentTypes] } : sh \in PrefabShapes }

\* whether addComponent hands back the new component active is the
\* engine's choice: no `active` parameter is passed (lines 244, 252, 262)
AddedActive == BOOLEAN

Stmt(op, e) == [op |-> op, e |-> e]

\* the statements of cloneObject(source, target), with `free` the number of
\* the next entity scene.addObject will create; the result is
\* [stmts, free]
RECURSIVE CloneStmts(_, _, _, _)
RECURSIVE CloneChildren(_, _, _, _, _)
CloneChildren(prefab, source, target, i, free) ==
    IF i > Len(prefab[source].children) THEN [stmts |-> <<>>, free |-> free]
    ELSE LET newChild == free
             sub  == CloneStmts(prefab, prefab[source].children[i],
                                newChild, free + 1)
             rest == CloneChildren(prefab, source, target, i + 1, sub.free)
         IN  [stmts |-> <<[op |-> "addObject", e |-> newChild]>>
                            \o sub.stmts \o rest.stmts,
              free |-> rest.free]

CloneStmts(prefab, source, target, free) ==
    LET has(t) == t \in prefab[source].components
        kids == CloneChildren(prefab, source, target, 1, free)
    IN  [stmts |->
            (IF has("mesh") THEN <<Stmt("addMesh", target)>> ELSE <<>>)
            \o (IF has("physx")
                THEN <<Stmt("addPhysx", target), Stmt("copyPhysx", target),
                       Stmt("deactivatePhysx", target)>>
                ELSE <<>>)
            \o (IF has("collision") THEN <<Stmt("addCollision", target)>> ELSE <<>>)
            \o kids.stmts,
         free |-> kids.free]

\* the statements of the try block of spawnFruit for the picked prefab
SpawnStmts(prefab) ==
    <<Stmt("addObject", Fruit), Stmt("setPositionWorld", Fruit),
      Stmt("setRotationWorld", Fruit)>>
    \o CloneStmts(prefab, 1, Fruit, Fruit + 1).stmts
    \o <<Stmt("setPositionWorld", Fruit)>>
    \o (IF "physx" \in prefab[1].components
        THEN <<Stmt("activatePhysx", Fruit)>> ELSE <<>>)

\* an entity scene.addObject has just created
NewEntity == [components |-> {}, physx |-> "none", positioned |-> 0, rotated |-> FALSE]

\* spawnFruit() has picked its prefab and enters the statements
Spawning(prefab) ==
    [ pc       |-> "building",
      prefab   |-> prefab,
      stmts    |-> SpawnStmts(prefab),
      next     |-> 1,
      entities |-> <<>> ]

SpawnInit ==
    /\ ComponentInit
    /\ attached = "spawner"
    /\ spawner = SpawnerStart(10, <<"apple">>)
    /\ startup = NotStarting
    /\ spawning \in {Spawning(prefab) : prefab \in Prefabs}

\* the statement spawnFruit runs next
Running(op) ==
    /\ spawning.pc = "building"
    /\ spawning.next <= Len(spawning.stmts)
    /\ spawning.stmts[spawning.next].op = op

Target == spawning.stmts[spawning.next].e

\* the statement has changed the entities to es
Ran(es) ==
    /\ spawning' = [spawning EXCEPT !.entities = es, !.next = @ + 1]
    /\ UNCHANGED <<componentVars, startup>>

\* lines 190, 269: scene.addObject
AddObject ==
    /\ Running("addObject")
    /\ Ran(Append(spawning.entities, NewEntity))

\* lines 203, 218: fruit.setPositionWorld(spawnPos)
SetPositionWorld ==
    /\ Running("setPositionWorld")
    /\ Ran([spawning.entities EXCEPT ![Target].positioned = @ + 1])

\* line 212: fruit.setRotationWorld(rotation)
SetRotationWorld ==
    /\ Running("setRotationWorld")
    /\ Ran([spawning.entities EXCEPT ![Target].rotated = TRUE])

\* lines 244-246: the mesh component
AddMesh ==
    /\ Running("addMesh")
    /\ Ran([spawning.entities EXCEPT ![Target].components = @ \cup {"mesh"}])

\* line 252: target.addComponent('physx')
AddPhysx ==
    /\ Running("addPhysx")
    /\ \E active \in AddedActive :
          Ran([spawning.entities EXCEPT
                  ![Target].components = @ \cup {"physx"},
                  ![Target].physx = IF active THEN "active" ELSE "inactive"])

\* lines 253-255: shape, mass and kinematic are copied
CopyPhysx ==
    /\ Running("copyPhysx")
    /\ Ran(spawning.entities)

\* line 256: newPhysx.active = false
DeactivatePhysx ==
    /\ Running("deactivatePhysx")
    /\ Ran([spawning.entities EXCEPT ![Target].physx = "inactive"])

\* lines 262-264: the collision component
AddCollision ==
    /\ Running("addCollision")
    /\ Ran([spawning.entities EXCEPT ![Target].components = @ \cup {"collision"}])

\* lines 222-225: physxComp.active = true on fruit.getComponent('physx')
ActivatePhysx ==
    /\ Running("activatePhysx")
    /\ Ran([spawning.entities EXCEPT ![Target].physx = "active"])

\* the try block is left: spawnFruit returns
SpawnReturns ==
    /\ spawning.pc = "building"
    /\ spawning.next > Len(spawning.stmts)
    /\ spawning' = [spawning EXCEPT !.pc = "done"]
    /\ UNCHANGED <<componentVars, startup>>

SpawnNext ==
    \/ AddObject
    \/ SetPositionWorld
    \/ SetRotationWorld
    \/ AddMesh
    \/ AddPhysx
    \/ CopyPhysx
    \/ DeactivatePhysx
    \/ AddCollision
    \/ ActivatePhysx
    \/ SpawnReturns

SpawnSpec == SpawnInit /\ [][SpawnNext]_vars

-----------------------------------------------------------------------------
(* Steps, as the claims name them                                          *)

\* the step is an update tick of a live component
UpdateStep == now' > now /\ ~destroyed

\* the step delivers a fresh press of the Space key
KeyEdge == ~keyHeld /\ keyHeld'

\* the step is an update that samples the configured button pressed while
\* the component's buttonPressed records it unpressed
CtlEdge ==
    /\ UpdateStep
    /\ ~Cfg.buttonPressed
    /\ Sample(session, destroyed, inputSources) = "P"

-----------------------------------------------------------------------------
(* C1 *)

\* C1 (recurrence floor): any two spawnFruit calls are at least
\* minSpawnInterval (1.0 s) apart, whatever spawnInterval is configured:
\* a step makes at most one call, and not sooner than 1.0 s after the
\* previous call.
C1_RecurrenceFloor ==
    [][fires' # <<>> =>
         /\ Len(fires') = 1
         /\ lastFireAt >= 0 => now' - lastFireAt >= spawner.minSpawnInterval]_vars

-----------------------------------------------------------------------------
(* C2 *)

\* C2 (immediate fire): a step in which isSpawning goes from false to true
\* makes exactly one spawnFruit call, the immediate one, with no recurring
\* call in the same update.
C2_ImmediateFire ==
    [][(~spawner.isSpawning /\ spawner'.isSpawning) => fires' = <<"immediate">>]_vars

-----------------------------------------------------------------------------
(* C3 *)

\* C3 (rising edge only): while one source (Space with its auto-repeat, or
\* the configured button of the one matching input source) is held after
\* having been seen unpressed, the other source staying unpressed, the
\* active flag of a ready component has been toggled exactly once, however
\* many ticks the press has lasted.
C3_RisingEdgeOnly ==
    (hold.src \in {"key", "ctl"} /\ hold.ready) => hold.toggles = 1

\* a controller press held over MaxHoldTicks update ticks that toggled once
C3_Witness ==
    /\ hold.src = "ctl"
    /\ hold.ready
    /\ hold.ticks = MaxHoldTicks
    /\ hold.toggles = 1

-----------------------------------------------------------------------------
(* C4 *)

\* C4 (dual-source OR): when one fresh Space press was delivered since the
\* previous update and this update samples the configured button going from
\* unpressed (at the previous tick) to pressed, the active flag of a ready
\* component is toggled exactly once over the tick, never twice.
C4_DualSourceOnce ==
    [][(UpdateStep /\ Ready /\ frameKeyEdges = 1
            /\ sampled = "U" /\ Sample(session, destroyed, inputSources) = "P")
        => frameKeyToggles + toggles' = 1]_vars

-----------------------------------------------------------------------------
(* C5 *)

\* C5 (fresh interval after reactivation): when the most recent spawnFruit
\* call is the immediate one of a reactivation, and the previous active
\* period had a recurring fire, the next recurring call comes no sooner than
\* one full spawnInterval after that immediate call.
C5_FreshInterval ==
    [][(fires' = <<"recurring">> /\ lastFireKind = "again"
            /\ spawner.lastSpawnTime > 0)
        => now' - lastFireAt >= spawner.spawnInterval]_vars

-----------------------------------------------------------------------------
(* C6 *)

\* C6 (accumulator zero while inactive): whenever isSpawning is false,
\* timeSinceLastSpawn is 0.
C6_AccumulatorZeroWhileInactive ==
    (attached = "spawner" /\ ~spawner.isSpawning) => spawner.timeSinceLastSpawn = 0

-----------------------------------------------------------------------------
(* C7 *)

\* C7 as stated (active changes only on a rising edge): isSpawning changes
\* only in a step where the Space key or the configured controller button
\* goes from unpressed to pressed.
C7_OnlyRisingEdge ==
    [][spawner'.isSpawning # spawner.isSpawning => (KeyEdge \/ CtlEdge)]_vars

\* the step is an XR session end or the component's destruction
EndStep == (session /\ ~session') \/ (~destroyed /\ destroyed')

\* C7 as amended: isSpawning changes only in a step where the Space key goes
\* from up to down, or where an update samples the configured button pressed
\* after recording it unpressed, or in an XR session end or onDestroy, which
\* only ever set it to false.
C7_OnlyRisingEdgeOrEnd ==
    [][spawner'.isSpawning # spawner.isSpawning =>
         \/ KeyEdge
         \/ CtlEdge
         \/ EndStep /\ ~spawner'.isSpawning]_vars

\* spawning was switched off by an XR session end, not by a press
C7_Witness ==
    /\ attached = "spawner"
    /\ lastFireKind # "none"
    /\ ~spawner.isSpawning
    /\ ~session
    /\ ~destroyed
    /\ ~keyHeld
    /\ hold.src = "ctl"
    /\ hold.toggles = 1

-----------------------------------------------------------------------------
(* C8 *)

\* C8 (music toggle): with the buffer decoded and the component alive, a
\* toggle event (a fresh Space press, or an update that samples a rising
\* edge of the configured button) stops playback when a source is playing
\* and starts playback otherwise.
C8_ToggleStopsOrStarts ==
    [][(attached = "music" /\ ~destroyed /\ Ready /\ (KeyEdge \/ CtlEdge))
        => IF music.sourceNode = "playing"
           THEN music'.sourceNode # "playing"
           ELSE music'.sourceNode = "playing"]_vars

-----------------------------------------------------------------------------
(* C9 *)

\* C9 (requests before the decode are dropped): while audioBuffer is null
\* isPlaying is false and sourceNode is null, whatever was requested; the
\* step that completes the decode starts no playback; and isPlaying becomes
\* true only in a step that delivers a toggle event.
C9_PreDecodeDropped ==
    [][attached = "music" =>
         /\ music'.audioBuffer = Null =>
                (~music'.isPlaying /\ music'.sourceNode = Null)
         /\ (music.audioBuffer = Null /\ music'.audioBuffer # Null) =>
                (~music'.isPlaying /\ music'.sourceNode = Null)
         /\ (~music.isPlaying /\ music'.isPlaying) => (KeyEdge \/ CtlEdge)]_vars

\* a request was dropped, the decode has completed since, nothing plays
C9_Witness ==
    /\ attached = "music"
    /\ dropped
    /\ loadPc = "done"
    /\ music.audioBuffer # Null
    /\ ~music.isPlaying
    /\ music.sourceNode = Null

-----------------------------------------------------------------------------
(* C10 *)

\* C10 (an absent source is unpressed): an update tick with no XR session,
\* no input source of the configured hand or no gamepad on it makes no
\* toggle and leaves the controller recorded as unpressed, and a fresh Space
\* press still toggles a ready component.
C10_AbsentIsUnpressed ==
    [][Sample(session, destroyed, inputSources) = "none" =>
         /\ UpdateStep => (toggles' = 0 /\ ~Cfg'.buttonPressed)
         /\ (KeyEdge /\ Ready) => toggles' = 1]_vars

-----------------------------------------------------------------------------
(* C11 *)

\* the step is the engine's onDestroy call on the music component
MusicDestroyStep == attached = "music" /\ ~destroyed /\ destroyed'

\* C11 (teardown stops playback): whatever state the music component is in
\* (playing, stopped, decode pending), when onDestroy returns isPlaying is
\* false, sourceNode is null, no started source is left unstopped, and the
\* audio context, if one was created, is closed
C11_TeardownStopsPlayback ==
    [][MusicDestroyStep =>
          /\ ~music'.isPlaying
          /\ music'.sourceNode = Null
          /\ startedSources' = 0
          /\ (music.audioContext # Null => music'.audioContext = "closed")]_vars

\* onDestroy has stopped a node that was playing and closed the context
C11_Witness ==
    /\ attached = "music"
    /\ destroyed
    /\ lastCalls = <<"stop", "close">>
    /\ music.audioContext = "closed"
    /\ ~music.isPlaying
    /\ music.sourceNode = Null

-----------------------------------------------------------------------------
(* C12 *)

\* C12 (idempotent stop): in every reachable state of the music component,
\* a second stopMusic call right after a first one changes nothing: the
\* fields are those the first call left (isPlaying false, sourceNode null),
\* no further node is stopped, and neither call throws
C12_StopTwice ==
    attached = "music" =>
        LET a == stopMusic(MRun(music))
            b == stopMusic(a)
        IN  /\ ~a.self.isPlaying /\ a.self.sourceNode = Null
            /\ b.self = a.self
            /\ b.started = a.started
            /\ ~a.threw /\ ~b.threw

\* the component has called stopMusic twice in succession, the first call
\* stopping a node
C12_Witness ==
    /\ attached = "music"
    /\ lastCalls = <<"stop", "stop0">>
    /\ ~music.isPlaying
    /\ music.sourceNode = Null

-----------------------------------------------------------------------------
(* C20 *)

\* C20 (playing flag matches source node): in every reachable state of the
\* music component isPlaying is true exactly when sourceNode is non-null,
\* and at most one started buffer source has not been stopped, which is the
\* one sourceNode holds
C20_FlagMatchesNode ==
    attached = "music" =>
        /\ music.isPlaying <=> music.sourceNode # Null
        /\ startedSources <= 1
        /\ startedSources = IF music.sourceNode # Null THEN 1 ELSE 0

\* playback was stopped and started again: one source is running
C20_Witness ==
    /\ attached = "music"
    /\ lastCalls = <<"stop", "play">>
    /\ music.isPlaying
    /\ music.sourceNode = "playing"
    /\ startedSources = 1

-----------------------------------------------------------------------------
(* C15 *)

\* C15 (empty-target safety): when start() resolved no prefab, every
\* spawnFruit call, immediate or recurring, adds no entity to the scene
\* and leaves the step it is made in to complete normally
C15_EmptyTargetNoOp ==
    [][(attached = "spawner" /\ Len(spawner.fruitObjects) = 0 /\ fires' # <<>>)
          => created' = 0]_vars

\* a recurring spawnFruit call was made with nothing resolved
C15_Witness ==
    /\ attached = "spawner"
    /\ Len(spawner.fruitObjects) = 0
    /\ fires = <<"recurring">>
    /\ created = 0
    /\ spawner.isSpawning

-----------------------------------------------------------------------------
(* C16 *)

\* C16 (no fire while inactive): a step of the spawner that calls spawnFruit
\* leaves isSpawning true, and isSpawning was true before the step or the
\* step toggled it; so once it is false no update spawns until a new
\* rising edge toggles it
C16_NoFireWhileInactive ==
    [][(attached = "spawner" /\ fires' # <<>>) =>
          /\ spawner'.isSpawning
          /\ (spawner.isSpawning \/ toggles' > 0)]_vars

\* the spawner fired, was deactivated, and update ticks have taken the
\* clock past the next interval without a spawn
C16_Witness ==
    /\ attached = "spawner"
    /\ ~destroyed
    /\ Len(spawner.fruitObjects) > 0
    /\ ~spawner.isSpawning
    /\ lastFireKind # "none"
    /\ now >= lastFireAt + spawner.spawnInterval + 10
    /\ fires = <<>>
    /\ created = 0

-----------------------------------------------------------------------------
(* C19 *)

\* C19 (inert after teardown): once onDestroy has run, no later step calls
\* spawnFruit, adds an entity or starts a buffer source, and isSpawning and
\* isPlaying are false after it
C19_InertAfterDestroy ==
    [][destroyed =>
          /\ fires' = <<>>
          /\ created' = 0
          /\ ~spawner'.isSpawning
          /\ ~music'.isPlaying
          /\ startedSources' = 0]_vars

-----------------------------------------------------------------------------
(* C17 *)

\* a scene that holds the spawner, with a prefab resolved
SpawnerInit == Init /\ attached = "spawner" /\ Len(spawner.fruitObjects) > 0

\* the events of such a scene that reach the spawner's handlers or change
\* what its update samples: frames, keys, XR session, teardown, and the
\* trigger of the configured (right) controller
SpawnerNext ==
    \/ \E dt \in Dts : Update(dt)
    \/ \E code \in Codes : KeyDown(code)
    \/ \E code \in Codes : KeyUp(code)
    \/ XRSessionStart
    \/ XRSessionEnd
    \/ Destroy
    \/ ConnectSource("right", TRUE)
    \/ PressButton(1, 1)
    \/ ReleaseButton(1, 1)

\* the engine's frame loop keeps calling update for as long as the clock of
\* the model runs
FairSpec ==
    SpawnerInit /\ [][SpawnerNext]_vars /\ WF_vars(\E dt \in Dts : Update(dt))

\* no further frame fits before the clock of the model stops
ClockAtEnd == \A dt \in Dts : now + dt > MaxTime

\* the readings the clock can show: every frame time is a multiple of 0.5 s
ClockReadings == {t \in 0..MaxTime : t % 5 = 0}

\* C17 (recurring fire liveness): while the spawner stays active and update
\* ticks keep arriving, a spawnFruit call at clock reading t is followed by
\* a later one (unless the spawner is deactivated or destroyed first, or
\* the clock of the model stops before an interval has passed since t)
C17_FiresAgain ==
    \A t \in ClockReadings :
        (attached = "spawner" /\ ~destroyed /\ spawner.isSpawning
            /\ lastFireAt = t)
        ~> \/ lastFireAt > t
           \/ ~spawner.isSpawning
           \/ destroyed
           \/ (ClockAtEnd /\ now < t + spawner.spawnInterval)

\* a recurring spawn that followed an earlier spawn of the same activation
C17_Witness ==
    /\ attached = "spawner"
    /\ ~destroyed
    /\ spawner.isSpawning
    /\ fires = <<"recurring">>
    /\ lastFireKind = "recurring"
    /\ lastFireAt = now
    /\ spawner.lastSpawnTime = now
    /\ now >= 2 * spawner.spawnInterval

-----------------------------------------------------------------------------
(* C13 *)

Nodes(scene) == 1..Len(scene)

\* the places where node n is listed as a child
Listings(scene, n) ==
    {pi \in Nodes(scene) \X (1..Len(scene)) :
        pi[2] <= Len(scene[pi[1]].children) /\ scene[pi[1]].children[pi[2]] = n}

\* the scene graph is a tree below engine.scene: the root is nobody's child
\* and every other node is listed once, below a node that is not among its
\* descendants
RECURSIVE Below(_, _, _)
Below(scene, n, k) ==
    IF k = 0 THEN {n}
    ELSE {n} \cup UNION {Below(scene, scene[n].children[i], k - 1) :
                            i \in 1..Len(scene[n].children)}

IsTree(scene) ==
    /\ Listings(scene, SceneRoot) = {}
    /\ \A n \in Nodes(scene) \ {SceneRoot} : Cardinality(Listings(scene, n)) = 1
    /\ Below(scene, SceneRoot, Len(scene)) = Nodes(scene)

Parent(scene, n) == (CHOOSE pi \in Listings(scene, n) : TRUE)[1]
Position(scene, n) == (CHOOSE pi \in Listings(scene, n) : TRUE)[2]

\* a node of a tree and its ancestors
RECURSIVE Lineage(_, _)
Lineage(scene, n) ==
    IF n = SceneRoot THEN {n} ELSE {n} \cup Lineage(scene, Parent(scene, n))

\* depth-first, root-first order of a tree: a node precedes its descendants,
\* and the subtree of a child precedes the subtrees of its later siblings
Precedes(scene, a, b) ==
    /\ a # b
    /\ \/ a \in Lineage(scene, b)
       \/ \E x \in Lineage(scene, a) \ {SceneRoot},
              y \in Lineage(scene, b) \ {SceneRoot} :
              /\ x # y
              /\ Parent(scene, x) = Parent(scene, y)
              /\ Position(scene, x) < Position(scene, y)

\* the first node of S in that order, as a list of at most one node
FirstOf(scene, S) ==
    IF S = {} THEN <<>>
    ELSE <<CHOOSE n \in S : \A m \in S \ {n} : Precedes(scene, n, m)>>

\* the nodes whose name equals the requested name
EqualNamed(scene, name) ==
    {n \in Nodes(scene) : scene[n].name.defined /\ scene[n].name.chars = name}

\* the nodes whose name contains the requested name, or whose name's part
\* before the first underscore is contained in it; nonEmpty leaves out the
\* nodes whose name is the empty string
Resembling(scene, name, nonEmpty) ==
    {n \in Nodes(scene) :
        /\ scene[n].name.defined
        /\ nonEmpty => scene[n].name.chars # <<>>
        /\ \/ Includes(scene[n].name.chars, name)
           \/ Includes(name, BeforeUnderscore(scene[n].name.chars))}

\* what the claim says a name resolves to
TargetOf(scene, name, nonEmpty) ==
    IF EqualNamed(scene, name) # {}
    THEN FirstOf(scene, EqualNamed(scene, name))
    ELSE FirstOf(scene, Resembling(scene, name, nonEmpty))

RECURSIVE TargetsOf(_, _, _)
TargetsOf(scene, names, nonEmpty) ==
    IF names = <<>> THEN <<>>
    ELSE TargetOf(scene, Head(names), nonEmpty)
             \o TargetsOf(scene, Tail(names), nonEmpty)

\* start() has resolved the names of a scene that is a tree
Resolved == startup.pc = "done" /\ IsTree(startup.scene)

\* C13 (prefab resolution result), as claimed: for every scene tree and
\* every list of names, fruitObjects holds, in request order and with
\* duplicates kept, for each name the first node in depth-first root-first
\* order whose name equals it, else the first whose name contains it or
\* whose prefix before the first underscore is contained in it; a name
\* without match adds nothing, so the list is no longer than the request
C13_ResolvedAsClaimed ==
    Resolved =>
        /\ startup.fruitObjects = TargetsOf(startup.scene, startup.names, FALSE)
        /\ Len(startup.fruitObjects) <= Len(startup.names)

\* C13, amended: the same, where the partial match (second rule) only
\* considers nodes whose name is not empty
C13_ResolvedNonEmpty ==
    Resolved =>
        /\ startup.fruitObjects = TargetsOf(startup.scene, startup.names, TRUE)
        /\ Len(startup.fruitObjects) <= Len(startup.names)
        /\ Len(startup.fruitObjects) + startup.warnings = Len(startup.names)

\* 'a' was requested twice in a tree without a node named 'a', where a node
\* named '' precedes the node 'a_b': both requests resolved to 'a_b'
C13_Witness ==
    /\ Resolved
    /\ startup.names = <<<<"a">>, <<"a">>>>
    /\ Len(startup.fruitObjects) = 2
    /\ startup.fruitObjects[1] = startup.fruitObjects[2]
    /\ startup.scene[startup.fruitObjects[1]].name.chars = <<"a", "_", "b">>
    /\ \E n \in Nodes(startup.scene) :
           /\ n # SceneRoot
           /\ startup.scene[n].name.chars = <<>>
           /\ Precedes(startup.scene, n, startup.fruitObjects[1])

-----------------------------------------------------------------------------
(* C14 *)

\* C14 (traversal terminates on cyclic graphs): for every scene graph, one
\* with a node among its own descendants included, the traversal of lines
\* 60-66 returns: it never recurses until the call stack is exhausted
C14_TraversalReturns == startup.pc # "overflow"

-----------------------------------------------------------------------------
(* C18 *)

\* every statement of the spawn has run, the last one activating physics
ActivationRanLast ==
    /\ spawning.next > Len(spawning.stmts)
    /\ spawning.stmts[Len(spawning.stmts)] = Stmt("activatePhysx", Fruit)

\* C18 (physics activated last): during one spawn every physics component
\* of the entities being built is inactive from its creation on; the only
\* one ever active is that of the spawned root entity, and only once all
\* components and children are copied and the final position is set, its
\* activation being the last statement that changes anything
C18_PhysicsActivatedLast ==
    spawning.pc # "idle" =>
        \A e \in 1..Len(spawning.entities) :
            spawning.entities[e].physx = "active" =>
                /\ e = Fruit
                /\ ActivationRanLast
                /\ spawning.entities[Fruit].positioned = 2

====
